---- MODULE Spec2Model ----
(***************************************************************************)
(* LightsControllerClass of FlyballETS-Software (LightsController.h/.cpp): *)
(* the lights bitmask, the on/off schedule table, the start sequence and   *)
(* the fault lights, driven by Main() once per loop iteration.             *)
(*                                                                         *)
(* Time is the value of millis().  One call of a handler is one step and   *)
(* reads one clock value (a call takes far less than a millisecond); the   *)
(* clock advances between calls in quanta of 500 ms, which is enough to    *)
(* place a call strictly before, exactly at and strictly after every       *)
(* deadline the program computes (all are call times plus multiples of     *)
(* 1000 ms).                                                               *)
(***************************************************************************)
EXTENDS Integers, Sequences, FiniteSets, TLC

\* ------------------------------------------------------------------ bounds
\* The clock runs from 0 to MaxSteps quanta of 500 ms.
MaxSteps == 9
\* At most this many ToggleFaultLight calls in one run of Spec.
MaxFaultCalls == 1
\* The clock bound and the call bound of SpecFault, which runs no start sequence.
MaxFaultSteps == 6
MaxFaultCallsAlone == 2
\* SpecTimers: the clock bound and the ToggleFaultLight call bound.
MaxTimerSteps == 8
MaxTimerFaultCalls == 1
\* SpecLive: InitiateStartSequence() is called, and the schedule populated, by
\* this many quanta, which leaves the clock room to run past the last off time;
\* and the ToggleFaultLight call bound.
LiveArmSteps == 1
MaxLiveFaultCalls == 1

\* ------------------------------------------------------- enums and tables
\* enum Lights: decimal values of the lights on the 74HC595
WHITE == 130
RED == 64
YELLOW1 == 32
BLUE == 16
YELLOW2 == 8
GREEN == 4
YELLOW3 == 2
Lights == {WHITE, RED, YELLOW1, BLUE, YELLOW2, GREEN, YELLOW3}

\* enum LightStates
OFF == 0
ON == 1
TOGGLE == 2
LightStates == {OFF, ON, TOGGLE}

\* enum OverallStates
OverallStates == {"STOPPED", "STARTING", "STARTED"}

\* RaceHandler.RaceState as far as this class reads it: STARTING or not.
RaceStates == {"STOPPED", "STARTING"}

\* Lights _byLightsArray[7], indexed from 0 as in the source
_byLightsArray == [i \in 0..6 |-> <<WHITE, RED, YELLOW1, BLUE, YELLOW2, GREEN, YELLOW3>>[i + 1]]

\* Lights _byDogErrorLigths[4], indexed from 0 as in the source
_byDogErrorLigths == [i \in 0..3 |-> <<RED, BLUE, YELLOW2, GREEN>>[i + 1]]

\* The bound of the three loops over the schedule table: for (i = 0; i < 6; i++)
LoopSlots == 6

\* The schedule arrays have 7 elements.
Slots == 0..6

\* A recorded clock value is -1 until the call it records has happened.
Known(t) == t >= 0

VARIABLES
    byOverallState,           \* OverallStates byOverallState
    _byCurrentLightsState,    \* byte: the mask last written to the shift register
    _byNewLightsState,        \* byte: the pending mask
    _bStartSequenceStarted,   \* bool
    _lLightsOnSchedule,       \* unsigned long [7]
    _lLightsOutSchedule,      \* unsigned long [7]
    millis,                   \* the clock, in ms
    RaceState,                \* RaceHandler.RaceState
    \* ---- observation of the last Main() call
    StartTimersCalls,         \* number of RaceHandler.StartTimers() calls it made
    shiftOutCalls,            \* the bytes it wrote with shiftOut, in order
    lastTick,                 \* its clock value (-1 before the first call)
    \* ---- history of the calls
    history,                  \* whether this run records the clock values below
    justReset,                \* the last call was ResetLights()
    lastSet,                  \* the last direct ToggleLightState call: <<light, state, state read before>>
    seqT0,                    \* clock value of the Main() that populated the schedule
    seqClean,                 \* ... from a reset state, and no fault-light call since
    seqRace,                  \* ... and RaceState has been STARTING since
    seqTimers,                \* StartTimers() was called since
    seqGreenTick,             \* a Main() ran at a clock value in (T0+3000, T0+4000]
    faultT,                   \* clock value of the last ToggleFaultLight(i, ON)
    prevFaultT,               \* ... and of the one before
    nFaultCalls               \* number of ToggleFaultLight calls so far

vars == <<byOverallState, _byCurrentLightsState, _byNewLightsState,
          _bStartSequenceStarted, _lLightsOnSchedule, _lLightsOutSchedule,
          millis, RaceState, StartTimersCalls, shiftOutCalls, lastTick,
          history, justReset, lastSet, seqT0, seqClean, seqRace, seqTimers,
          seqGreenTick, faultT, prevFaultT, nFaultCalls>>

progVars == <<byOverallState, _byCurrentLightsState, _byNewLightsState,
              _bStartSequenceStarted, _lLightsOnSchedule, _lLightsOutSchedule>>

seqVars == <<seqT0, seqClean, seqRace, seqTimers, seqGreenTick>>

tickVars == <<StartTimersCalls, shiftOutCalls, lastTick>>

\* A history variable's next value: recorded only in a run that keeps history.
Rec(new, old) == IF history THEN new ELSE old

\* ---------------------------------------------------------- pure functions
\* a & b on unsigned values
RECURSIVE BitAnd(_, _)
BitAnd(a, b) ==
    IF a = 0 \/ b = 0 THEN 0
    ELSE (a % 2) * (b % 2) + 2 * BitAnd(a \div 2, b \div 2)

\* LightStates CheckLightState(Lights byLight), on the pending mask
CheckLightState(byLight, mask) ==
    IF BitAnd(byLight, mask) = byLight THEN ON ELSE OFF

\* void ToggleLightState(Lights byLight, LightStates byLightState):
\* the new value of the byte _byNewLightsState
ToggleLightState(byLight, byLightState, mask) ==
    LET byCurrentLightState == IF CheckLightState(byLight, mask) = ON THEN 1 ELSE 0
        resolved == IF byLightState = TOGGLE
                    THEN (IF byCurrentLightState = ON THEN OFF ELSE ON)
                    ELSE byLightState
    IN  IF byCurrentLightState # resolved
        THEN IF resolved = ON
             THEN (mask + byLight) % 256
             ELSE (mask - byLight) % 256
        ELSE mask

\* Mutant: a deadline fires on the tick that reaches it (>= for >).
PassedOrReached(t, sched) == t >= sched /\ sched # 0

\* millis() > schedule && schedule != 0
Passed(t, sched) == t > sched /\ sched # 0

\* Mutant: a fired on time is not deleted from the schedule.
DrainSlotKeepOnTime(c, i, t) ==
    LET fireOn  == Passed(t, c.on[i])
        mask1   == IF fireOn THEN ToggleLightState(_byLightsArray[i], ON, c.mask) ELSE c.mask
        fireOut == Passed(t, c.out[i])
        mask2   == IF fireOut THEN ToggleLightState(_byLightsArray[i], OFF, mask1) ELSE mask1
        out1    == IF fireOut THEN [c.out EXCEPT ![i] = 0] ELSE c.out
    IN  [c EXCEPT !.out = out1, !.mask = mask2]

\* One iteration of the loop of Main(): slot i's on time, then its off time.
DrainSlot(c, i, t) ==
    LET fireOn  == Passed(t, c.on[i])
        mask1   == IF fireOn THEN ToggleLightState(_byLightsArray[i], ON, c.mask) ELSE c.mask
        on1     == IF fireOn THEN [c.on EXCEPT ![i] = 0] ELSE c.on
        fireOut == Passed(t, c.out[i])
        mask2   == IF fireOut THEN ToggleLightState(_byLightsArray[i], OFF, mask1) ELSE mask1
        out1    == IF fireOut THEN [c.out EXCEPT ![i] = 0] ELSE c.out
    IN  [c EXCEPT !.on = on1, !.out = out1, !.mask = mask2]

\* The loop of Main(), from iteration i on (d: the state after iteration i,
\* computed once).
RECURSIVE DrainLoop(_, _, _)
DrainLoop(c, i, t) ==
    IF i < LoopSlots
    THEN CHOOSE r \in {DrainLoop(d, i + 1, t) : d \in {DrainSlot(c, i, t)}} : TRUE
    ELSE c

\* Mutant: GREEN is programmed to come on with YELLOW2.
StartOnScheduleEarlyGreen(on, t) ==
    [on EXCEPT ![6] = t, ![2] = t + 1000, ![4] = t + 2000, ![5] = t + 2000]

\* The on times HandleStartSequence() programs at clock value t.
StartOnSchedule(on, t) ==
    [on EXCEPT ![6] = t, ![2] = t + 1000, ![4] = t + 2000, ![5] = t + 3000]

\* Mutant: YELLOW1 is kept on until YELLOW2 goes off.
StartOutScheduleLongYellow1(out, t) ==
    [out EXCEPT ![6] = t + 1000, ![2] = t + 3000, ![4] = t + 3000, ![5] = t + 4000]

\* The off times HandleStartSequence() programs at clock value t.
StartOutSchedule(out, t) ==
    [out EXCEPT ![6] = t + 1000, ![2] = t + 2000, ![4] = t + 3000, ![5] = t + 4000]

\* bool bStartSequenceBusy after its loop
bStartSequenceBusy(on, out) ==
    \E i \in 0..(LoopSlots - 1) : on[i] > 0 \/ out[i] > 0

\* Mutant: the race state is not consulted.
ShouldStartTimersAnyRace(mask, race) ==
    CheckLightState(GREEN, mask) = ON

\* The condition under which HandleStartSequence() calls RaceHandler.StartTimers()
ShouldStartTimers(mask, race) ==
    CheckLightState(GREEN, mask) = ON /\ race = "STARTING"

\* Mutant: the sequence is also handled, and populated again, in the STARTED state.
HandleStartSequenceWhenStarted(c, t, race) ==
    IF c.state # "STOPPED"
    THEN LET arm  == ~c.started
             on1  == IF arm THEN StartOnSchedule(c.on, t) ELSE c.on
             out1 == IF arm THEN StartOutSchedule(c.out, t) ELSE c.out
             busy == bStartSequenceBusy(on1, out1)
         IN  [c EXCEPT !.on = on1, !.out = out1,
                       !.started = busy,
                       !.state = IF busy THEN "STARTING" ELSE "STARTED",
                       !.timers = IF ShouldStartTimers(c.mask, race) THEN 1 ELSE 0]
    ELSE c

\* void HandleStartSequence() at clock value t
HandleStartSequence(c, t, race) ==
    IF c.state = "STARTING"
    THEN LET arm  == ~c.started
             on1  == IF arm THEN StartOnSchedule(c.on, t) ELSE c.on
             out1 == IF arm THEN StartOutSchedule(c.out, t) ELSE c.out
             busy == bStartSequenceBusy(on1, out1)
         IN  [c EXCEPT !.on = on1, !.out = out1,
                       !.started = busy,
                       !.state = IF busy THEN "STARTING" ELSE "STARTED",
                       !.timers = IF ShouldStartTimers(c.mask, race) THEN 1 ELSE 0]
    ELSE c

\* Mutant: the mask is written on every call, changed or not.
FlushAlways(cur, new) ==
    [cur |-> new, log |-> <<new>>]

\* The end of Main(): write the mask to the shift register when it changed.
Flush(cur, new) ==
    IF cur # new
    THEN [cur |-> new, log |-> <<new>>]
    ELSE [cur |-> cur, log |-> <<>>]

\* Mutant: the schedules survive the reset.
DeleteSchedulesNone(sched) == sched

\* void DeleteSchedules(), on either schedule array
DeleteSchedules(sched) ==
    [i \in Slots |-> IF i < LoopSlots THEN 0 ELSE sched[i]]

\* Mutant: WHITE is kept on for 2 seconds.
ScheduleWhiteLong(on, out, t) ==
    [on |-> [on EXCEPT ![0] = t], out |-> [out EXCEPT ![0] = t + 2000]]

\* Mutant: a pending off time is kept, so a second call does not restart the window.
ScheduleWhiteKeepPending(on, out, t) ==
    [on |-> [on EXCEPT ![0] = t],
     out |-> [out EXCEPT ![0] = IF out[0] # 0 THEN out[0] ELSE t + 1000]]

\* The WHITE schedule ToggleFaultLight(_, ON) sets at clock value t.
ScheduleWhite(on, out, t) ==
    [on |-> [on EXCEPT ![0] = t], out |-> [out EXCEPT ![0] = t + 1000]]

\* ------------------------------------------------------------------- state
Constructed ==
    /\ byOverallState = "STOPPED"
    /\ _byCurrentLightsState = 256 % 256
    /\ _byNewLightsState = 0
    /\ _bStartSequenceStarted = FALSE
    /\ _lLightsOnSchedule = [i \in Slots |-> 0]
    /\ _lLightsOutSchedule = [i \in Slots |-> 0]
    /\ millis = 0
    /\ RaceState \in RaceStates
    /\ StartTimersCalls = 0
    /\ shiftOutCalls = <<>>
    /\ lastTick = -1
    /\ justReset = FALSE
    /\ lastSet = <<>>
    /\ seqT0 = -1
    /\ seqClean = FALSE
    /\ seqRace = FALSE
    /\ seqTimers = FALSE
    /\ seqGreenTick = FALSE
    /\ faultT = -1
    /\ prevFaultT = -1
    /\ nFaultCalls = 0

\* The state after construction; the run records the events of the calls only.
Init == Constructed /\ history = FALSE

\* The state after construction; the run also records the clock values of the calls.
InitHistory == Constructed /\ history = TRUE

\* No timestamp pending in the slots the loops visit, and no light on.
ResetState ==
    /\ _byNewLightsState = 0
    /\ \A i \in 0..(LoopSlots - 1) :
          _lLightsOnSchedule[i] = 0 /\ _lLightsOutSchedule[i] = 0

\* ----------------------------------------------------------------- actions
\* void Main()
Main ==
    LET c0  == [state |-> byOverallState, started |-> _bStartSequenceStarted,
                on |-> _lLightsOnSchedule, out |-> _lLightsOutSchedule,
                mask |-> _byNewLightsState, timers |-> 0]
        arm == byOverallState = "STARTING" /\ ~_bStartSequenceStarted
    IN  \* HandleStartSequence(), then the loop, then the write: each computed once
        \E c1 \in {HandleStartSequence(c0, millis, RaceState)} :
        \E c2 \in {DrainLoop(c1, 0, millis)} :
        \E f \in {Flush(_byCurrentLightsState, c2.mask)} :
        /\ byOverallState' = c2.state
        /\ _bStartSequenceStarted' = c2.started
        /\ _lLightsOnSchedule' = c2.on
        /\ _lLightsOutSchedule' = c2.out
        /\ _byNewLightsState' = c2.mask
        /\ _byCurrentLightsState' = f.cur
        /\ shiftOutCalls' = f.log
        /\ StartTimersCalls' = c1.timers
        /\ lastTick' = Rec(millis, lastTick)
        /\ justReset' = FALSE
        /\ seqT0' = Rec(IF arm THEN millis ELSE seqT0, seqT0)
        /\ seqClean' = Rec(IF arm THEN ResetState ELSE seqClean, seqClean)
        /\ seqRace' = Rec(IF arm THEN RaceState = "STARTING" ELSE seqRace, seqRace)
        /\ seqTimers' = Rec(IF arm THEN c1.timers > 0 ELSE seqTimers \/ c1.timers > 0,
                            seqTimers)
        /\ seqGreenTick' = Rec(IF arm THEN FALSE
                               ELSE seqGreenTick \/ (/\ Known(seqT0)
                                                     /\ millis > seqT0 + 3000
                                                     /\ millis <= seqT0 + 4000),
                               seqGreenTick)
        /\ UNCHANGED <<millis, RaceState, history, lastSet, faultT, prevFaultT,
                       nFaultCalls>>

\* Mutant: the call also ends the running session, so that the next Main()
\* populates the schedule again.
InitiateStartSequenceRestart ==
    /\ byOverallState' = "STARTING"
    /\ _bStartSequenceStarted' = FALSE
    /\ justReset' = FALSE
    /\ UNCHANGED <<_byCurrentLightsState, _byNewLightsState,
                   _lLightsOnSchedule, _lLightsOutSchedule, millis, RaceState,
                   tickVars, history, lastSet, seqVars, faultT, prevFaultT,
                   nFaultCalls>>

\* void InitiateStartSequence()
InitiateStartSequence ==
    /\ byOverallState' = "STARTING"
    /\ justReset' = FALSE
    /\ UNCHANGED <<_byCurrentLightsState, _byNewLightsState, _bStartSequenceStarted,
                   _lLightsOnSchedule, _lLightsOutSchedule, millis, RaceState,
                   tickVars, history, lastSet, seqVars, faultT, prevFaultT,
                   nFaultCalls>>

\* void ResetLights()
ResetLights ==
    /\ byOverallState' = "STOPPED"
    /\ _byNewLightsState' = 0
    /\ _lLightsOnSchedule' = DeleteSchedules(_lLightsOnSchedule)
    /\ _lLightsOutSchedule' = DeleteSchedules(_lLightsOutSchedule)
    /\ justReset' = TRUE
    /\ seqT0' = -1
    /\ seqClean' = FALSE
    /\ seqRace' = FALSE
    /\ seqTimers' = FALSE
    /\ seqGreenTick' = FALSE
    /\ faultT' = -1
    /\ prevFaultT' = -1
    /\ UNCHANGED <<_byCurrentLightsState, _bStartSequenceStarted, millis, RaceState,
                   tickVars, history, lastSet, nFaultCalls>>

\* void ToggleFaultLight(uint8_t DogNumber, LightStates byLightState)
ToggleFaultLight(DogNumber, byLightState) ==
    LET byLight == _byDogErrorLigths[DogNumber]
    IN  \E w \in {IF byLightState = ON
                  THEN ScheduleWhite(_lLightsOnSchedule, _lLightsOutSchedule, millis)
                  ELSE [on |-> _lLightsOnSchedule, out |-> _lLightsOutSchedule]} :
        /\ nFaultCalls' = nFaultCalls + 1
        /\ _lLightsOnSchedule' = w.on
        /\ _lLightsOutSchedule' = w.out
        /\ _byNewLightsState' = ToggleLightState(byLight, byLightState, _byNewLightsState)
        /\ justReset' = FALSE
        /\ faultT' = Rec(IF byLightState = ON THEN millis ELSE faultT, faultT)
        /\ prevFaultT' = Rec(IF byLightState = ON THEN faultT ELSE prevFaultT, prevFaultT)
        /\ seqClean' = FALSE
        /\ UNCHANGED <<byOverallState, _byCurrentLightsState, _bStartSequenceStarted,
                       millis, RaceState, tickVars, history, lastSet,
                       seqT0, seqRace, seqTimers, seqGreenTick>>

\* The clock advances between two calls.
AdvanceClock ==
    /\ millis' = millis + 500
    /\ UNCHANGED <<progVars, RaceState, tickVars, history, justReset, lastSet, seqVars,
                   faultT, prevFaultT, nFaultCalls>>

\* The race handler changes its state between two calls.
ChangeRaceState ==
    /\ RaceState' \in RaceStates \ {RaceState}
    /\ seqRace' = FALSE
    /\ UNCHANGED <<progVars, millis, tickVars, history, justReset, lastSet,
                   seqT0, seqClean, seqTimers, seqGreenTick,
                   faultT, prevFaultT, nFaultCalls>>

\* A direct call of the public ToggleLightState(byLight, byLightState)
SetLightState(byLight, byLightState) ==
    /\ _byNewLightsState' = ToggleLightState(byLight, byLightState, _byNewLightsState)
    /\ lastSet' = <<byLight, byLightState, CheckLightState(byLight, _byNewLightsState)>>
    /\ justReset' = FALSE
    /\ UNCHANGED <<byOverallState, _byCurrentLightsState, _bStartSequenceStarted,
                   _lLightsOnSchedule, _lLightsOutSchedule, millis, RaceState,
                   tickVars, history, seqVars, faultT, prevFaultT, nFaultCalls>>

\* ---------------------------------------------------------- specifications
\* The entry points the rest of the firmware calls, in any order.
Next ==
    \/ Main
    \/ InitiateStartSequence
    \/ ResetLights
    \/ /\ nFaultCalls < MaxFaultCalls
       /\ \E DogNumber \in 0..3, byLightState \in LightStates :
             ToggleFaultLight(DogNumber, byLightState)
    \/ (millis < MaxSteps * 500 /\ AdvanceClock)
    \/ ChangeRaceState

Spec == Init /\ [][Next]_vars

\* The start sequence with no fault-light call, with history.
NextSeq ==
    \/ Main
    \/ InitiateStartSequence
    \/ ResetLights
    \/ (millis < MaxSteps * 500 /\ AdvanceClock)
    \/ ChangeRaceState

SpecSeq == InitHistory /\ [][NextSeq]_vars

\* The fault lights with no start sequence, with history.
NextFault ==
    \/ Main
    \/ ResetLights
    \/ /\ nFaultCalls < MaxFaultCallsAlone
       /\ \E DogNumber \in 0..3, byLightState \in LightStates :
             ToggleFaultLight(DogNumber, byLightState)
    \/ (millis < MaxFaultSteps * 500 /\ AdvanceClock)

SpecFault == InitHistory /\ [][NextFault]_vars

\* The light model alone: every mask direct ToggleLightState calls reach.
NextLight ==
    \E byLight \in Lights, byLightState \in LightStates :
        SetLightState(byLight, byLightState)

SpecLight == InitHistory /\ [][NextLight]_vars

\* The start sequence and the fault lights together, with history.
NextTimers ==
    \/ Main
    \/ InitiateStartSequence
    \/ ResetLights
    \/ /\ nFaultCalls < MaxTimerFaultCalls
       /\ \E DogNumber \in 0..3, byLightState \in LightStates :
             ToggleFaultLight(DogNumber, byLightState)
    \/ (millis < MaxTimerSteps * 500 /\ AdvanceClock)
    \/ ChangeRaceState

SpecTimers == InitHistory /\ [][NextTimers]_vars

\* The clock of SpecLive: it stops at a horizon 4500 ms after the latest clock value
\* at which a schedule is populated, and it waits for the Main() that populates the
\* schedule when that latest value is reached.
AdvanceClockLive ==
    /\ millis < LiveArmSteps * 500 + 4500
    /\ (byOverallState = "STARTING" /\ ~_bStartSequenceStarted)
          => millis < LiveArmSteps * 500
    /\ AdvanceClock

\* Runs in which Main() keeps being called and the clock keeps advancing: fault
\* lights are toggled and the lights reset at any time outside a start sequence,
\* the lights may also be reset during one, and a start sequence is initiated
\* early enough to finish before the clock's horizon.
NextLive ==
    \/ Main
    \/ (millis <= LiveArmSteps * 500 /\ InitiateStartSequence)
    \/ ResetLights
    \/ /\ nFaultCalls < MaxLiveFaultCalls
       /\ byOverallState # "STARTING"
       /\ \E DogNumber \in 0..3, byLightState \in LightStates :
             ToggleFaultLight(DogNumber, byLightState)
    \/ AdvanceClockLive

SpecLive == Init /\ [][NextLive]_vars /\ WF_vars(Main) /\ WF_vars(AdvanceClockLive)

\* ------------------------------------------------------------------ claims
\* A step of Main(). What Main never does comes first (move the clock, the race
\* state or the fault-call count, follow a reset flag with a set one, enter
\* STARTING), so that a step of another action is told apart before Main is
\* evaluated in full.
MainStep ==
    /\ UNCHANGED <<millis, RaceState, nFaultCalls>>
    /\ ~justReset'
    /\ (byOverallState' = "STARTING" => byOverallState = "STARTING")
    /\ Main

\* The light as CheckLightState reads it in the pending mask.
IsOn(byLight) == CheckLightState(byLight, _byNewLightsState) = ON

\* A start sequence was populated at seqT0 from a reset state and has seen no
\* fault-light call and no reset since.
CleanSequence == Known(seqT0) /\ seqClean

\* C1 (as claimed): in a start sequence populated at T0 from a reset state, the
\* stage-1 light YELLOW3 is ON after the tick at T0 and OFF after every tick at
\* T0+1000 or later. Stated for T0 > 0, where the on time T0 is not the value 0
\* that the schedule table reads as unset.
C1_Stage1Light ==
    (CleanSequence /\ seqT0 > 0) =>
        /\ (lastTick = seqT0 => IsOn(YELLOW3))
        /\ (lastTick >= seqT0 + 1000 => ~IsOn(YELLOW3))

C3_StartedOnlyWhenTableEmpty ==
    (Known(seqT0) /\ byOverallState = "STARTED") =>
        \A i \in Slots : _lLightsOnSchedule[i] = 0 /\ _lLightsOutSchedule[i] = 0

\* C4: a Main() that calls RaceHandler.StartTimers() starts with GREEN ON in the
\* pending mask, byOverallState STARTING and the race state STARTING.
C4_TimersOnlyOnGreen ==
    [][(StartTimersCalls' > 0 /\ MainStep) =>
          /\ IsOn(GREEN)
          /\ byOverallState = "STARTING"
          /\ RaceState = "STARTING"]_vars

\* C4 witness: the last Main() called StartTimers().
C4_Witness == StartTimersCalls > 0

\* C5 (as claimed): a sequence that ran from its population to STARTED with the
\* race state STARTING throughout has called StartTimers().
C5_AsClaimed ==
    (Known(seqT0) /\ seqRace /\ byOverallState = "STARTED") => seqTimers

\* C5 (amended): a sequence populated at T0 from a reset state, with no fault-light
\* call and the race state STARTING throughout, has called StartTimers() by the time
\* it is STARTED exactly when one of its ticks ran at a clock value t with
\* T0+3000 < t <= T0+4000 (the ticks that leave GREEN ON).
C5_TimersIffGreenTick ==
    (CleanSequence /\ seqRace /\ byOverallState = "STARTED") =>
        (seqTimers <=> seqGreenTick)

\* C5 witness: such a sequence is STARTED, a tick fell in the GREEN window and
\* StartTimers() was called.
C5_Witness ==
    /\ CleanSequence
    /\ seqRace
    /\ byOverallState = "STARTED"
    /\ seqGreenTick
    /\ seqTimers

\* C6: Main() writes the shift register at most once, exactly when the pending mask
\* after the loop differs from the applied mask; it writes the pending mask, and the
\* applied mask equals the pending mask when it returns.
C6_FlushOncePerTick ==
    [][MainStep =>
          /\ shiftOutCalls' = IF _byCurrentLightsState # _byNewLightsState'
                              THEN <<_byNewLightsState'>>
                              ELSE <<>>
          /\ _byCurrentLightsState' = _byNewLightsState']_vars

\* C6 witness: the last Main() wrote a mask with a light on.
C6_Witness ==
    /\ shiftOutCalls = <<_byCurrentLightsState>>
    /\ _byCurrentLightsState # 0

\* C7 (as claimed): after ToggleLightState(L, ON) CheckLightState(L) is ON, after
\* ToggleLightState(L, OFF) it is OFF, and after ToggleLightState(L, TOGGLE) it is
\* the opposite of what it was before the call.
C7_SetThenCheck ==
    lastSet # <<>> =>
        LET now == CheckLightState(lastSet[1], _byNewLightsState)
        IN  /\ (lastSet[2] = ON => now = ON)
            /\ (lastSet[2] = OFF => now = OFF)
            /\ (lastSet[2] = TOGGLE => now # lastSet[3])

C9_WindowRestarts ==
    (Known(prevFaultT) /\ faultT = prevFaultT + 500) =>
        /\ (lastTick \in {prevFaultT + 1000, prevFaultT + 1500} => IsOn(WHITE))
        /\ (lastTick >= prevFaultT + 2500 => ~IsOn(WHITE))

\* C9 witness: the tick at +1500 has run and WHITE is ON.
C9_Witness ==
    /\ Known(prevFaultT)
    /\ faultT = prevFaultT + 500
    /\ lastTick = prevFaultT + 1500
    /\ IsOn(WHITE)

\* C10: ResetLights() leaves byOverallState STOPPED and the pending mask 0, and the
\* Main() that follows it with no other call in between leaves the applied mask 0.
C10_ResetDrivesMaskToZero ==
    [][/\ ResetLights => (byOverallState' = "STOPPED" /\ _byNewLightsState' = 0)
       /\ (justReset /\ MainStep) => _byCurrentLightsState' = 0]_vars

\* C10 witness: ResetLights() has just been called during a running start sequence
\* whose lights are on the shift register.
C10_Witness ==
    /\ justReset
    /\ _bStartSequenceStarted
    /\ _byCurrentLightsState # 0

\* The Main() that is running populates the schedule (its HandleStartSequence()
\* overwrites the start-sequence slots before the loop reads them).
Arms == byOverallState = "STARTING" /\ ~_bStartSequenceStarted

\* C11 (as claimed): for every one of the seven slots, when an on time t1 and an
\* off time t2 with 0 < t1 < t2 are pending, no tick at a clock value past t2 has
\* run since they were set: such a tick would have fired and unset both.
C11_SlotDrainedPastOffTime ==
    \A i \in Slots :
        (0 < _lLightsOnSchedule[i] /\ _lLightsOnSchedule[i] < _lLightsOutSchedule[i])
            => lastTick <= _lLightsOutSchedule[i]

C13_AllSlotsUnsetAfterReset ==
    justReset =>
        \A i \in Slots : _lLightsOnSchedule[i] = 0 /\ _lLightsOutSchedule[i] = 0

\* a | b and a & ~b on unsigned values
BitOr(a, b) == a + b - BitAnd(a, b)
BitAndNot(a, b) == a - BitAnd(a, b)

\* C14 (as claimed): ToggleLightState(L, s) leaves the mask OR-ed with L when it
\* resolves to ON and AND-NOT-ed with L when it resolves to OFF, and
\* CheckLightState(M) is unchanged for every other light M.
C14_OnlyOwnBitsChange ==
    [][\A L \in Lights, s \in LightStates :
          SetLightState(L, s) =>
              /\ _byNewLightsState' \in {BitOr(_byNewLightsState, L),
                                        BitAndNot(_byNewLightsState, L)}
              /\ \A M \in Lights \ {L} :
                    CheckLightState(M, _byNewLightsState')
                        = CheckLightState(M, _byNewLightsState)]_vars

\* The slots HandleStartSequence() populates: YELLOW3, YELLOW1, YELLOW2, GREEN.
StageSlots == {6, 2, 4, 5}

\* C15: InitiateStartSequence() changes neither the session flag nor any timestamp;
\* a Main() populates the schedule only when no on or off time of YELLOW1, YELLOW2
\* or GREEN is pending; and while the session flag is set a Main() changes a stage's
\* on or off time only by unsetting one the clock has passed.
C15_PopulatedOncePerSession ==
    [][/\ InitiateStartSequence =>
            /\ _bStartSequenceStarted' = _bStartSequenceStarted
            /\ _lLightsOnSchedule' = _lLightsOnSchedule
            /\ _lLightsOutSchedule' = _lLightsOutSchedule
       /\ (Arms /\ MainStep) =>
            \A i \in StageSlots \ {6} :
                _lLightsOnSchedule[i] = 0 /\ _lLightsOutSchedule[i] = 0
       /\ (_bStartSequenceStarted /\ MainStep) =>
            \A i \in StageSlots :
                /\ _lLightsOnSchedule'[i] \in {_lLightsOnSchedule[i], 0}
                /\ _lLightsOnSchedule'[i] # _lLightsOnSchedule[i]
                      => millis > _lLightsOnSchedule[i]
                /\ _lLightsOutSchedule'[i] \in {_lLightsOutSchedule[i], 0}
                /\ _lLightsOutSchedule'[i] # _lLightsOutSchedule[i]
                      => millis > _lLightsOutSchedule[i]]_vars

\* C15 witness: within a running session YELLOW1's on time has fired and its off
\* time is still pending.
C15_Witness ==
    /\ _bStartSequenceStarted
    /\ byOverallState = "STARTING"
    /\ _lLightsOnSchedule[2] = 0
    /\ _lLightsOutSchedule[2] # 0

\* C16 (as claimed): once byOverallState is STARTED, every call other than
\* ResetLights() leaves it STARTED.
C16_AsClaimed ==
    [][(byOverallState = "STARTED" /\ byOverallState' # "STARTED") => ResetLights]_vars

\* C16 (amended): once byOverallState is STARTED, Main() and ToggleFaultLight()
\* leave it STARTED; only ResetLights() (to STOPPED) and InitiateStartSequence()
\* (back to STARTING) change it.
C16_StartedUntilResetOrInitiate ==
    [][byOverallState = "STARTED" =>
          /\ byOverallState' # "STARTED" => (ResetLights \/ InitiateStartSequence)
          /\ InitiateStartSequence => byOverallState' = "STARTING"
          /\ ResetLights => byOverallState' = "STOPPED"]_vars

\* C16 witness: byOverallState is STARTED with a WHITE on time pending, so a
\* ToggleFaultLight(i, ON) came after the sequence finished (the sequence does not
\* finish while slot 0 is pending) and left the state STARTED.
C16_Witness ==
    /\ byOverallState = "STARTED"
    /\ _lLightsOnSchedule[0] # 0

\* The start sequence has finished: byOverallState is STARTED, the session flag is
\* cleared and YELLOW1, YELLOW2 and GREEN are OFF.
SequenceDone ==
    /\ byOverallState = "STARTED"
    /\ ~_bStartSequenceStarted
    /\ ~IsOn(YELLOW1)
    /\ ~IsOn(YELLOW2)
    /\ ~IsOn(GREEN)

\* C17 (as claimed): when InitiateStartSequence() has been called and Main() keeps
\* being called with an advancing clock, with no ToggleFaultLight() call since,
\* then, unless ResetLights() is called, byOverallState eventually is STARTED with
\* the session flag cleared and YELLOW1, YELLOW2 and GREEN OFF.
C17_EventuallyStarted ==
    (byOverallState = "STARTING") ~> (SequenceDone \/ byOverallState = "STOPPED")

\* C18 (as claimed): the session flag is set only while byOverallState is STARTING.
C18_FlagOnlyWhileStarting ==
    _bStartSequenceStarted => byOverallState = "STARTING"

\* C19 (as claimed): a Main() that calls RaceHandler.StartTimers() in a sequence
\* populated at T0 runs at a clock value past T0+3000.
C19_NoTimersBeforeGreenTime ==
    (StartTimersCalls > 0 /\ Known(seqT0)) => lastTick > seqT0 + 3000

\* The start-sequence lights in the order of their stages.
StageLights == <<YELLOW3, YELLOW1, YELLOW2, GREEN>>

\* C20: in a start sequence populated from a reset state, with no fault-light call,
\* at most one of YELLOW3, YELLOW1, YELLOW2, GREEN is ON after every Main(); and
\* when the light of a stage is ON, no on time of an earlier stage's light is still
\* pending in the loop's slots (it cannot come on afterwards) and those of all later
\* stages' lights still are (they have not come on yet).
C20_OneStageLightInOrder ==
    CleanSequence =>
        /\ Cardinality({k \in 1..4 : IsOn(StageLights[k])}) <= 1
        /\ \A k \in 1..4 :
              IsOn(StageLights[k]) =>
                  /\ \A j \in 2..4 : j < k => _lLightsOnSchedule[<<6, 2, 4, 5>>[j]] = 0
                  /\ \A j \in 2..4 : j > k => _lLightsOnSchedule[<<6, 2, 4, 5>>[j]] # 0

\* C20 witness: after the tick at T0+3500 GREEN is ON, the last of the stage
\* lights, with the on times of YELLOW1 and YELLOW2 fired.
C20_Witness ==
    /\ CleanSequence
    /\ lastTick = seqT0 + 3500
    /\ IsOn(GREEN)
    /\ _lLightsOnSchedule[2] = 0
    /\ _lLightsOnSchedule[4] = 0

====
